---- MODULE Spec2Model ----
(***************************************************************************)
(* CarbonSwap "Swappy" agent: the retry helper (retryWithBackoff), the     *)
(* retrieval tool (vector_search) and the agent turn loop (callAgent) of   *)
(* src/agent.js.                                                           *)
(*                                                                         *)
(* Conventions.  A JavaScript value that is undefined is modelled by 0     *)
(* for numeric fields (status, code) and by the string Undefined for text  *)
(* fields.                                                                 *)
(***************************************************************************)
EXTENDS Integers, Sequences, FiniteSets, TLC

VARIABLES
    retry,      \* the frame of the running retryWithBackoff call
    store,      \* thread id -> checkpointed GraphState.messages
    turn,       \* the callAgent invocation in progress
    tool,       \* the tools node in progress: calls left, results so far
    collection, \* the indexed documents, in similarity order
    apiKey,     \* whether GOOGLE_API_KEY is set
    env,        \* what the environment has done so far: faults, tool requests, turns
    server      \* the HTTP server: its clock and the requests it has received

agentVars == <<store, turn, tool, collection, apiKey, env, server>>
vars == <<retry, store, turn, tool, collection, apiKey, env, server>>

-----------------------------------------------------------------------------
(* Bounds of the model *)

\* largest maxRetries argument a direct caller passes
MaxMaxRetries == 6
\* upstream calls (a count, or a retried model or search call) that fail in one run
MaxFaultyCalls == 1
\* tool invocations one model response requests
MaxToolCalls == 2
\* tool invocations the model requests in a run of one turn without failures
MaxToolAsks == 7
\* tool invocations the model requests in any other run
MaxShortAsks == 1
\* documents in the collection
MaxDocs == 1
\* callAgent invocations in one run
MaxTurns == 2

-----------------------------------------------------------------------------
(* Values *)

Undefined == "<undefined>"

\* errors an upstream call can throw: {status, code, message}
ErrRateStatus == [status |-> 429, code |-> 0,   message |-> "Too Many Requests"]
ErrRateCode   == [status |-> 0,   code |-> 429, message |-> "Resource exhausted"]
ErrAuth       == [status |-> 401, code |-> 0,   message |-> "API key not valid"]
ErrOther      == [status |-> 500, code |-> 0,   message |-> "Internal error"]
ErrNoMessage  == [status |-> 0,   code |-> 0,   message |-> Undefined]

UpstreamErrors == {ErrRateStatus, ErrRateCode, ErrAuth, ErrOther, ErrNoMessage}

\* new Error("Max retries exceeded")
MaxRetriesError == [status |-> 0, code |-> 0, message |-> "Max retries exceeded"]

Ok(v)    == [ok |-> TRUE,  value |-> v,      err |-> ErrNoMessage]
Fail(e)  == [ok |-> FALSE, value |-> "none", err |-> e]

-----------------------------------------------------------------------------
(* JavaScript values as the normalizer sees them *)

Undef     == [t |-> "undefined"]
Null      == [t |-> "null"]
Str(s)    == [t |-> "string", s |-> s]
Num(n)    == [t |-> "number", n |-> n]
\* an object literal; `fields` is a record of JavaScript values
Obj(fields) == [t |-> "object", f |-> fields]
\* {}
EmptyObj  == [t |-> "object", f |-> [none |-> Undef]]

\* o.name  (undefined when o has no such property or is a primitive)
Get(o, name) ==
    IF o.t = "object" /\ name \in DOMAIN o.f THEN o.f[name] ELSE Undef

Nullish(v) == v.t \in {"undefined", "null"}

\* a ?? b
Coalesce(a, b) == IF Nullish(a) THEN b ELSE a

\* the truthiness a conditional tests
Truthy(v) ==
    CASE v.t = "string" -> v.s # ""
      [] v.t = "number" -> v.n # 0
      [] v.t = "object" -> TRUE
      [] OTHER -> FALSE

\* `${v}` in a template literal
ToText(v) ==
    CASE v.t = "string" -> v.s
      [] v.t = "number" -> ToString(v.n)
      [] v.t = "null"   -> "null"
      [] v.t = "object" -> "[object Object]"
      [] OTHER -> "undefined"

-----------------------------------------------------------------------------
(* retryWithBackoff *)

DefaultMaxRetries == 3

Min(a, b) == IF a < b THEN a ELSE b

\* variant of the rate-limit test: any error that carries a status or a code
isRateAnyStatus(err) == err.status # 0 \/ err.code # 0

\* const isRate = err?.status === 429 || err?.code === 429
isRate(err) == err.status = 429 \/ err.code = 429

\* variant of the delay: Math.min(1000 * Math.pow(2, attempt - 1), 30000)
DelayFromOneSecond(attempt) == Min(1000 * (2 ^ (attempt - 1)), 30000)

\* Math.min(1000 * Math.pow(2, attempt), 30000)
Delay(attempt) == Min(1000 * (2 ^ attempt), 30000)

\* variant of the loop condition: attempt < maxRetries
ForCondStrict(attempt, maxRetries) == attempt < maxRetries

\* for (...; attempt <= maxRetries; ...)
ForCond(attempt, maxRetries) == attempt <= maxRetries

\* variants of the retry condition: one attempt too few, and no attempt limit
ShouldRetryOneLess(err, attempt, maxRetries) == isRate(err) /\ attempt + 1 < maxRetries
ShouldRetryUnlimited(err, attempt, maxRetries) == isRate(err)

\* if (isRate && attempt < maxRetries) { sleep; continue }
ShouldRetry(err, attempt, maxRetries) == isRate(err) /\ attempt < maxRetries

IdleRetry ==
    [site |-> "none", maxRetries |-> 0, attempt |-> 0, calls |-> 0,
     sleeps |-> <<>>, outs |-> <<>>, status |-> "idle",
     value |-> "none", error |-> ErrNoMessage]

\* variant of the loop entry: let attempt = 0
NewRetryFromZero(site, maxRetries) ==
    [IdleRetry EXCEPT !.site = site, !.maxRetries = maxRetries,
                      !.attempt = 0, !.status = "running"]

\* entry of retryWithBackoff(fn, maxRetries): let attempt = 1
NewRetry(site, maxRetries) ==
    [IdleRetry EXCEPT !.site = site, !.maxRetries = maxRetries,
                      !.attempt = 1, !.status = "running"]

\* variant of the loop body: `continue` without attempt++
RetryPassSameAttempt(r, out) ==
    LET r1 == [r EXCEPT !.calls = @ + 1, !.outs = Append(@, out)]
    IN  IF out.ok
        THEN [r1 EXCEPT !.status = "returned", !.value = out.value]
        ELSE IF ShouldRetry(out.err, r.attempt, r.maxRetries)
             THEN [r1 EXCEPT !.sleeps = Append(@, Delay(r.attempt))]
             ELSE [r1 EXCEPT !.status = "thrown", !.error = out.err]

\* one pass of the loop body: fn is invoked and yields `out`
RetryPass(r, out) ==
    LET r1 == [r EXCEPT !.calls = @ + 1, !.outs = Append(@, out)]
    IN  IF out.ok
        THEN [r1 EXCEPT !.status = "returned", !.value = out.value]
        ELSE IF ShouldRetry(out.err, r.attempt, r.maxRetries)
             THEN [r1 EXCEPT !.sleeps = Append(@, Delay(r.attempt)),
                             !.attempt = @ + 1]
             ELSE [r1 EXCEPT !.status = "thrown", !.error = out.err]

\* the loop ended without return or throw: throw new Error("Max retries exceeded")
RetryFallThrough(r) ==
    [r EXCEPT !.status = "thrown", !.error = MaxRetriesError]

RetryCanInvoke == retry.status = "running" /\ ForCond(retry.attempt, retry.maxRetries)
RetryAtEnd     == retry.status = "running" /\ ~ForCond(retry.attempt, retry.maxRetries)

-----------------------------------------------------------------------------
(* vector_search: result normalization *)

\* a TypeError raised by a method call on a value that has no such method
TypeError(what) == [status |-> 0, code |-> 0, message |-> what \o " is not a function"]

Done(v)   == [ok |-> TRUE,  value |-> v,     err |-> ErrNoMessage]
Throw(e)  == [ok |-> FALSE, value |-> Undef, err |-> e]

\* s.slice(0, k) of a string s
Slice(s, k) == SubSeq(s, 1, Min(k, Len(s)))

\* pageContent?.slice(0, k): undefined for a nullish receiver, the prefix of a
\* string, a TypeError for any other value
OptSlice(pc, k) ==
    IF Nullish(pc) THEN Done(Undef)
    ELSE IF pc.t = "string" THEN Done(Str(Slice(pc.s, k)))
    ELSE Throw(TypeError("pageContent?.slice"))

IsSpace(c) == c \in {" ", "\n", "\t", "\r"}

RECURSIVE TrimLeft(_)
TrimLeft(s) ==
    IF Len(s) > 0 /\ IsSpace(SubSeq(s, 1, 1)) THEN TrimLeft(SubSeq(s, 2, Len(s))) ELSE s

RECURSIVE TrimRight(_)
TrimRight(s) ==
    IF Len(s) > 0 /\ IsSpace(SubSeq(s, Len(s), Len(s)))
    THEN TrimRight(SubSeq(s, 1, Len(s) - 1)) ELSE s

\* s.trim()
Trim(s) == TrimRight(TrimLeft(s))

\* s.split("\n").slice(0, k).join(" "): the first k lines, joined by one space
RECURSIVE FirstLines(_, _)
FirstLines(s, k) ==
    IF Len(s) = 0 THEN ""
    ELSE IF SubSeq(s, 1, 1) = "\n"
         THEN IF k <= 1 THEN "" ELSE " " \o FirstLines(SubSeq(s, 2, Len(s)), k - 1)
         ELSE SubSeq(s, 1, 1) \o FirstLines(SubSeq(s, 2, Len(s)), k)

\* variant of a suffix: ` | Label: ${v}${unit}` whatever v is
SuffixAlways(v, label, unit) == " | " \o label \o ": " \o ToText(v) \o unit

\* ${v ? ` | Label: ${v}${unit}` : ""}
Suffix(v, label, unit) ==
    IF Truthy(v) THEN " | " \o label \o ": " \o ToText(v) \o unit ELSE ""

\* the body of the loop over rawResults, for one [doc, score] pair
Normalize(r) ==
    LET doc    == r[1]
        score  == r[2]
        meta   == Coalesce(Get(doc, "metadata"), EmptyObj)
        source == Coalesce(Coalesce(Get(meta, "source"), Get(doc, "source")),
                           Str("unknown"))
        id     == Coalesce(Coalesce(Get(Get(doc, "metadata"), "_id"), Get(doc, "_id")),
                           Get(meta, "_id"))
        pc     == Get(doc, "pageContent")
        out(summary) ==
            Done([id |-> id, score |-> score, source |-> source,
                  summary |-> summary, full |-> doc])
    IN  IF source = Str("dummyProjects") \/ Truthy(Get(meta, "raw"))
        THEN LET raw == Coalesce(Coalesce(Coalesce(Get(meta, "raw"),
                                                   Get(Get(doc, "metadata"), "raw")),
                                          Get(doc, "raw")), EmptyObj)
                 named == Coalesce(Coalesce(Get(raw, "projectName"),
                                            Get(raw, "ProjectName")),
                                   Get(meta, "projectName"))
                 excerpt == OptSlice(pc, 80)
                 location == Coalesce(Coalesce(Get(raw, "location"),
                                               Get(raw, "Location")),
                                      Get(meta, "location"))
                 price == Coalesce(Get(raw, "price"), Get(raw, "Price"))
                 sequestration == Coalesce(Coalesce(Get(raw, "carbonSequestration"),
                                                    Get(raw, "carbonSequestration")),
                                           Get(raw, "sequestration"))
                 stock == Coalesce(Get(raw, "stock"), Get(raw, "Stock"))
                 compose(projectName) ==
                     "Project: " \o ToText(projectName)
                       \o Suffix(location, "Location", "")
                       \o Suffix(sequestration, "Est. sequestration", "")
                       \o Suffix(price, "Price", "")
                       \o Suffix(stock, "Stock", "")
             IN  IF ~Nullish(named) THEN out(compose(named))
                 ELSE IF excerpt.ok THEN out(compose(excerpt.value))
                 ELSE Throw(excerpt.err)
        ELSE IF source = Str("csv") \/ Truthy(Get(meta, "row"))
        THEN LET row == Coalesce(Coalesce(Get(meta, "row"), Get(doc, "row")), EmptyObj)
                 named == Coalesce(Coalesce(Get(row, "nama_lokasi"),
                                            Get(row, "nama_lokasi")),
                                   Get(row, "name"))
                 excerpt == OptSlice(pc, 80)
                 luas == Coalesce(Coalesce(Get(row, "luas_ha"), Get(row, "luas")),
                                  Get(row, "area"))
                 karbon == Coalesce(Coalesce(Get(row, "karbon_terserap"),
                                             Get(row, "karbon")),
                                    Get(row, "carbon"))
                 rating == Coalesce(Get(row, "rating_ulasan"), Get(row, "rating"))
                 compose(nama) ==
                     "Location: " \o ToText(nama)
                       \o Suffix(luas, "Area", " ha")
                       \o Suffix(karbon, "Carbon captured", "")
                       \o Suffix(rating, "Rating", "")
             IN  IF ~Nullish(named) THEN out(compose(named))
                 ELSE IF excerpt.ok THEN out(compose(excerpt.value))
                 ELSE Throw(excerpt.err)
        ELSE IF source = Str("markdown")
        THEN LET text == Coalesce(pc, Str(""))
             IN  IF text.t = "string"
                 THEN out("Doc: " \o Trim(FirstLines(text.s, 3)))
                 ELSE Throw(TypeError("(doc.pageContent ?? \"\").split"))
        ELSE LET text == Coalesce(pc, Str(""))
             IN  IF text.t = "string"
                 THEN out(Slice(text.s, 150))
                 ELSE Throw(TypeError("(doc.pageContent ?? \"\").slice"))

\* variant of the loop: normalized.unshift(...) in place of normalized.push(...)
RECURSIVE NormalizeAllReversed(_)
NormalizeAllReversed(rawResults) ==
    IF rawResults = <<>> THEN Done(<<>>)
    ELSE LET first == Normalize(Head(rawResults))
         IN  IF ~first.ok THEN first
             ELSE LET rest == NormalizeAllReversed(Tail(rawResults))
                  IN  IF rest.ok THEN Done(rest.value \o <<first.value>>) ELSE rest

\* for (const r of rawResults) { ... normalized.push(...) }: the list of
\* normalized results, or the first error raised on the way
RECURSIVE NormalizeAll(_)
NormalizeAll(rawResults) ==
    IF rawResults = <<>> THEN Done(<<>>)
    ELSE LET first == Normalize(Head(rawResults))
         IN  IF ~first.ok THEN first
             ELSE LET rest == NormalizeAll(Tail(rawResults))
                  IN  IF rest.ok THEN Done(<<first.value>> \o rest.value) ELSE rest

-----------------------------------------------------------------------------
(* vector_search: the envelopes *)

\* JSON.stringify({error: "empty_db", message, count: 0})
EmptyDbEnvelope ==
    [error |-> "empty_db", message |-> "No indexed documents found", count |-> 0]

\* JSON.stringify({results: normalized, searchType: "vector", query, count})
SuccessEnvelope(normalized, query) ==
    [results |-> normalized, searchType |-> "vector", query |-> query,
     count |-> Len(normalized)]

\* String(err) of a thrown value that has no message
StringOfError == "[object Object]"

\* JSON.stringify({error: "search_error", details: err?.message ?? String(err), query})
SearchErrorEnvelope(err, query) ==
    [error |-> "search_error",
     details |-> IF err.message = Undefined THEN StringOfError ELSE err.message,
     query |-> query]

\* how a call of the tool function ends: it returns an envelope or raises
Returned(envelope) == [raised |-> FALSE, envelope |-> envelope, err |-> ErrNoMessage]
Raised(err)        == [raised |-> TRUE,  envelope |-> EmptyDbEnvelope, err |-> err]

\* variant of the catch block: catch (err) { throw err }
CatchBlockRethrow(err, query) == Raised(err)

\* catch (err) { return JSON.stringify({error: "search_error", ...}) }
CatchBlock(err, query) == Returned(SearchErrorEnvelope(err, query))

\* the try block up to the search, given the outcome of countDocuments that
\* ends the call there (a throw, or a count of 0)
BeforeSearch(out, query) ==
    IF ~out.ok THEN CatchBlock(out.err, query) ELSE Returned(EmptyDbEnvelope)

\* what follows `await retryWithBackoff(...)` in the try block, and the catch
\* block when the search or the normalization threw
AfterSearch(r, query) ==
    IF r.status = "thrown" THEN CatchBlock(r.error, query)
    ELSE LET normalized == NormalizeAll(r.value)
         IN  IF normalized.ok
             THEN Returned(SuccessEnvelope(normalized.value, query))
             ELSE CatchBlock(normalized.err, query)

-----------------------------------------------------------------------------
(* The document collection and its similarity search *)

ProjectDoc ==
    Obj([pageContent |-> Str("Mangrove Bay restoration project"),
         metadata |-> Obj([source |-> Str("dummyProjects"), _id |-> Str("p1"),
                           raw |-> Obj([projectName |-> Str("Mangrove Bay"),
                                        location |-> Str("Bali"),
                                        price |-> Num(50)])])])

CsvDoc ==
    Obj([pageContent |-> Str("Kalimantan Site A, 120 ha"),
         metadata |-> Obj([source |-> Str("csv"), _id |-> Str("c1"),
                           row |-> Obj([nama_lokasi |-> Str("Kalimantan Site A"),
                                        luas_ha |-> Num(120)])])])

MarkdownDoc ==
    Obj([pageContent |-> Str("# Compliance\nRules for projects\n\nMore text"),
         metadata |-> Obj([source |-> Str("markdown"), _id |-> Str("m1")])])

\* a stored record whose content field is not text
BrokenDoc ==
    Obj([pageContent |-> Num(404), metadata |-> Obj([_id |-> Str("b1")])])

GoodDoc(i) ==
    CASE i % 3 = 1 -> ProjectDoc
      [] i % 3 = 2 -> CsvDoc
      [] OTHER     -> MarkdownDoc

\* the collections of a run: k well-formed documents, the last one possibly
\* replaced by a record with non-text content
Corpora ==
    {[i \in 1..k |-> GoodDoc(i)] : k \in 0..MaxDocs}
      \cup {[i \in 1..k |-> IF i = k THEN BrokenDoc ELSE GoodDoc(i)] : k \in 1..MaxDocs}

\* relevance score of the i-th best match (percent)
Score(i) == 100 - 10 * i

\* vectorStore.similaritySearchWithScore(query, n): the n best [doc, score] pairs
similaritySearchWithScore(docs, query, n) ==
    [i \in 1..Min(n, Len(docs)) |-> <<docs[i], Score(i)>>]

\* collection.countDocuments()
countDocuments(docs) == Len(docs)

-----------------------------------------------------------------------------
(* Messages and the graph state *)

Threads == {"t1", "t2"}
UserQueries == {"show me mangrove projects"}
SearchQuery == "mangrove"

\* n of the tool schema when the model leaves it out
DefaultN == 6
\* values of n the model passes; 0 stands for "left out"
ToolNs == {0}

HumanMessage(q) ==
    [role |-> "human", content |-> q, tool_calls |-> <<>>, tool_call_id |-> 0]
AIMessage(c, calls) ==
    [role |-> "ai", content |-> c, tool_calls |-> calls, tool_call_id |-> 0]
ToolMessage(envelope, id) ==
    [role |-> "tool", content |-> envelope, tool_calls |-> <<>>, tool_call_id |-> id]

\* variant of ToolNode: the result message does not carry the call's id
ToolNodeMessageUnpaired(res, call) == ToolMessage(res.envelope, 0)

\* ToolNode: the tool's return value becomes the content of a ToolMessage with
\* the call's id; an exception raised by the tool becomes an error text
ToolNodeMessage(res, call) ==
    IF res.raised
    THEN ToolMessage([toolError |-> "Error: "
                        \o (IF res.err.message = Undefined THEN StringOfError
                            ELSE res.err.message)
                        \o "\n Please fix your mistakes."], call.id)
    ELSE ToolMessage(res.envelope, call.id)

\* variant of the edge out of the tools node: .addEdge("tools", "__end__")
AfterToolsEnd == "end"

\* .addEdge("tools", "agent")
AfterTools == "agent"

ToolCall(id, n) ==
    [id |-> id, name |-> "vector_search", args |-> [query |-> SearchQuery, n |-> n]]

\* ({ query, n = 6 }) =>
ArgN(args) == IF args.n = 0 THEN DefaultN ELSE args.n

\* variant of the reducer: (x, y) => y, the update replaces the history
reducerReplace(x, y) == y

\* reducer: (x, y) => x.concat(y)
reducer(x, y) == x \o y

\* shouldContinue(state)
shouldContinue(msgs) ==
    IF msgs = <<>> THEN "__end__"
    ELSE IF Len(msgs[Len(msgs)].tool_calls) > 0 THEN "tools"
    ELSE "__end__"

\* variant of the response expression: lastMsg.content, without the || ""
FinalResponseNoFallback(msgs) ==
    IF msgs = <<>> THEN Undefined ELSE msgs[Len(msgs)].content

\* (lastMsg && lastMsg.content) || ""
FinalResponse(msgs) ==
    IF msgs = <<>> THEN ""
    ELSE IF msgs[Len(msgs)].content = Undefined THEN ""
    ELSE msgs[Len(msgs)].content

\* variant of the limit: one that would allow 12 decide/execute cycles
RecursionLimitForCycles == 2 * 12

\* { recursionLimit: 12 }
RecursionLimit == 12

RecursionMessage == "Recursion limit of 12 reached without hitting a stop condition."
\* new Error("GOOGLE_API_KEY environment variable is required")
MissingKeyError ==
    [status |-> 0, code |-> 0,
     message |-> "GOOGLE_API_KEY environment variable is required"]
\* the GraphRecursionError app.invoke rejects with
GraphRecursionError == [status |-> 0, code |-> 0, message |-> RecursionMessage]

\* variant of the catch block without the test for status 401
AgentErrorMessageNoAuth(err) ==
    IF err.status = 429 THEN "Rate limited; try again later."
    ELSE "Agent error: " \o (IF err.message = Undefined THEN StringOfError ELSE err.message)

\* the catch block of callAgent: the message of the error it throws
AgentErrorMessage(err) ==
    IF err.status = 429 THEN "Rate limited; try again later."
    ELSE IF err.status = 401 THEN "Authentication error; check API key."
    ELSE "Agent error: " \o (IF err.message = Undefined THEN StringOfError ELSE err.message)

\* status, thread, next (the node to run), steps (graph steps run by this
\* invocation), response and error are the state of the invocation; the other
\* fields record its history: base (length of the thread's history when it
\* began), decides and executes (runs of the nodes "agent" and "tools"),
\* modelCalls and modelFails (invocations of model.invoke and how many threw),
\* toolRuns (tool calls executed), prompt (the messages last given to the
\* model), failedAt and cause (where and with which error it failed)
IdleTurn ==
    [status |-> "idle", thread |-> "none", next |-> "none", steps |-> 0,
     base |-> 0, decides |-> 0, executes |-> 0, modelCalls |-> 0,
     modelFails |-> 0, toolRuns |-> 0, prompt |-> <<>>, response |-> "",
     error |-> "", failedAt |-> "none", cause |-> ErrNoMessage]

\* pending: the tool calls not yet answered; out: the tool messages so far;
\* count and trace record what the upstream calls of each answered call did
IdleTool ==
    [status |-> "idle", pending |-> <<>>, out |-> <<>>, count |-> Ok(0), trace |-> <<>>]

\* the server before any request: its clock (Date.now(), in ms since it started)
\* and the requests received so far
IdleServer == [clock |-> 0, requests |-> <<>>]

Messages == store[turn.thread]

\* tool-call ids of the response to a history of length len
CallsOf(len, ns) == [i \in 1..Len(ns) |-> ToolCall(10 * (len + 1) + i, ns[i])]

\* The environment of a run is bounded in one of two ways: a single turn in
\* which no upstream call fails and the model asks for up to MaxToolAsks tool
\* invocations, or up to MaxTurns turns with up to MaxFaultyCalls failing
\* upstream calls and up to MaxShortAsks tool invocations.
LongRun == env.faulty = 0 /\ env.turns = 1

\* tool invocations the model may still request in this run
AsksLeft == (IF LongRun THEN MaxToolAsks ELSE MaxShortAsks) - env.asked

\* what model.invoke can yield for the current history
ModelResponses ==
    {AIMessage(c, <<>>) : c \in {Undefined, "Here are the top matches"}}
      \cup {AIMessage("", CallsOf(Len(Messages), ns)) :
              ns \in UNION {[1..k -> ToolNs] : k \in 1..Min(MaxToolCalls, AsksLeft)}}

\* the failures the environment may inject into an upstream call; `open` says
\* that this call has failed before (a retried call failing again)
Faults(open) ==
    IF env.asked <= MaxShortAsks /\ (open \/ env.faulty < MaxFaultyCalls)
    THEN {Fail(e) : e \in UpstreamErrors} ELSE {}

CountFault(out, open) ==
    [env EXCEPT !.faulty = IF out.ok \/ open THEN @ ELSE @ + 1]

-----------------------------------------------------------------------------
(* callAgent *)

\* callAgent(client, query, thread_id) up to the first await of app.invoke: the
\* key check, and the user's message applied to the thread's checkpoint.  Thread
\* names are interchangeable, so the first turn of a run is taken on "t1".
CallAgent(t, q) ==
    /\ turn.status \in {"idle", "returned", "failed"}
    /\ env.turns < MaxTurns /\ env.asked <= MaxShortAsks
    /\ env.turns = 0 => t = "t1"
    /\ env' = [env EXCEPT !.turns = @ + 1]
    /\ IF apiKey
       THEN /\ store' = [store EXCEPT ![t] = reducer(@, <<HumanMessage(q)>>)]
            /\ turn' = [IdleTurn EXCEPT !.status = "running", !.thread = t,
                                        !.next = "agent", !.base = Len(store[t])]
       ELSE /\ turn' = [IdleTurn EXCEPT !.status = "failed", !.thread = t,
                           !.base = Len(store[t]), !.failedAt = "config",
                           !.cause = MissingKeyError,
                           !.error = AgentErrorMessage(MissingKeyError)]
            /\ UNCHANGED store
    /\ UNCHANGED <<retry, tool, collection, apiKey, server>>

\* a node may start while the step counter has not passed the limit
StepAllowed == turn.steps <= RecursionLimit

\* node "agent": callModel(state) enters retryWithBackoff
AgentStart ==
    /\ turn.status = "running" /\ turn.next = "agent"
    /\ retry.status = "idle"
    /\ StepAllowed
    /\ retry' = NewRetry("model", DefaultMaxRetries)
    /\ turn' = [turn EXCEPT !.decides = @ + 1]
    /\ UNCHANGED <<store, tool, collection, apiKey, env, server>>

\* one pass of the retry loop around model.invoke(formatted)
ModelInvoke(out) ==
    /\ retry.site = "model"
    /\ RetryCanInvoke
    /\ retry' = RetryPass(retry, out)
    /\ turn' = [turn EXCEPT !.modelCalls = @ + 1, !.prompt = Messages,
                            !.modelFails = IF out.ok THEN @ ELSE @ + 1]
    /\ env' = [CountFault(out, retry.outs # <<>>) EXCEPT
                 !.asked = IF out.ok THEN @ + Len(out.value.tool_calls) ELSE @]
    /\ UNCHANGED <<store, tool, collection, apiKey, server>>

\* callModel returned { messages: [result] }: the reducer appends it and
\* shouldContinue routes
AgentFinish ==
    /\ retry.site = "model" /\ retry.status = "returned"
    /\ LET msgs == reducer(Messages, <<retry.value>>)
       IN  /\ store' = [store EXCEPT ![turn.thread] = msgs]
           /\ turn' = [turn EXCEPT !.steps = @ + 1,
                                   !.next = IF shouldContinue(msgs) = "tools"
                                            THEN "tools" ELSE "end"]
    /\ retry' = IdleRetry
    /\ UNCHANGED <<tool, collection, apiKey, env, server>>

\* callModel threw: app.invoke rejects and the catch block of callAgent maps the error
AgentThrow ==
    /\ retry.site = "model" /\ retry.status = "thrown"
    /\ turn' = [turn EXCEPT !.status = "failed", !.next = "none",
                            !.failedAt = "model", !.cause = retry.error,
                            !.error = AgentErrorMessage(retry.error)]
    /\ retry' = IdleRetry
    /\ UNCHANGED <<store, tool, collection, apiKey, env, server>>

\* node "tools": ToolNode takes the tool calls of the last message
ToolsStart ==
    /\ turn.status = "running" /\ turn.next = "tools"
    /\ tool.status = "idle"
    /\ StepAllowed
    /\ tool' = [IdleTool EXCEPT !.status = "count",
                                !.pending = Messages[Len(Messages)].tool_calls]
    /\ UNCHANGED <<retry, store, turn, collection, apiKey, env, server>>

\* the tool function ended for the first pending call: ToolNode keeps its message
Answer(res, countOut, searchOuts) ==
    [tool EXCEPT !.status = "count", !.pending = Tail(@),
                 !.out = Append(@, ToolNodeMessage(res, Head(tool.pending))),
                 !.trace = Append(@, [count |-> countOut, search |-> searchOuts])]

\* variant of the empty-collection test: the tool always goes on to the search
IsEmptyNever(total) == FALSE

\* if (total === 0)
IsEmpty(total) == total = 0

\* vectorSearchTool up to the search: countDocuments, the empty_db return, and
\* the catch block when the count throws
ToolCount(out) ==
    /\ tool.status = "count" /\ tool.pending # <<>>
    /\ turn' = [turn EXCEPT !.toolRuns = @ + 1]
    /\ env' = CountFault(out, FALSE)
    /\ IF out.ok /\ ~IsEmpty(out.value)
       THEN /\ tool' = [tool EXCEPT !.status = "searching", !.count = out]
            /\ retry' = NewRetry("search", DefaultMaxRetries)
       ELSE /\ tool' = Answer(BeforeSearch(out, Head(tool.pending).args.query), out, <<>>)
            /\ UNCHANGED retry
    /\ UNCHANGED <<store, collection, apiKey, server>>

\* what the similarity search yields for the call being executed
SearchResult ==
    similaritySearchWithScore(collection, Head(tool.pending).args.query,
                              ArgN(Head(tool.pending).args))

\* one pass of the retry loop around vectorStore.similaritySearchWithScore(query, n)
SearchInvoke(out) ==
    /\ retry.site = "search"
    /\ RetryCanInvoke
    /\ retry' = RetryPass(retry, out)
    /\ env' = CountFault(out, retry.outs # <<>>)
    /\ UNCHANGED <<store, turn, tool, collection, apiKey, server>>

\* vectorSearchTool after the search: normalization and the success envelope,
\* or the catch block
ToolFinish ==
    /\ retry.site = "search" /\ retry.status \in {"returned", "thrown"}
    /\ tool' = Answer(AfterSearch(retry, Head(tool.pending).args.query),
                      tool.count, retry.outs)
    /\ retry' = IdleRetry
    /\ UNCHANGED <<store, turn, collection, apiKey, env, server>>

\* every call is answered: the reducer appends the tool messages, edge tools -> agent
ToolsDone ==
    /\ tool.status = "count" /\ tool.pending = <<>>
    /\ store' = [store EXCEPT ![turn.thread] = reducer(@, tool.out)]
    /\ turn' = [turn EXCEPT !.steps = @ + 1, !.executes = @ + 1, !.next = AfterTools]
    /\ tool' = IdleTool
    /\ UNCHANGED <<retry, collection, apiKey, env, server>>

\* app.invoke resolved: the content of the last message is returned
ReturnResponse ==
    /\ turn.status = "running" /\ turn.next = "end"
    /\ StepAllowed
    /\ turn' = [turn EXCEPT !.status = "returned", !.next = "none",
                            !.response = FinalResponse(Messages)]
    /\ UNCHANGED <<retry, store, tool, collection, apiKey, env, server>>

\* app.invoke rejects with GraphRecursionError once recursionLimit steps have run
\* and the graph has not stopped; the catch block of callAgent wraps it
RecursionError ==
    /\ turn.status = "running"
    /\ retry.status = "idle" /\ tool.status = "idle"
    /\ \/ turn.steps > RecursionLimit
       \/ turn.steps = RecursionLimit /\ turn.next # "end"
    /\ turn' = [turn EXCEPT !.status = "failed", !.next = "none",
                            !.failedAt = "recursion", !.cause = GraphRecursionError,
                            !.error = AgentErrorMessage(GraphRecursionError)]
    /\ UNCHANGED <<retry, store, tool, collection, apiKey, env, server>>

Init ==
    /\ retry = IdleRetry
    /\ store = [t \in Threads |-> <<>>]
    /\ turn = IdleTurn
    /\ tool = IdleTool
    /\ collection \in Corpora
    /\ apiKey \in BOOLEAN
    /\ env = [faulty |-> 0, asked |-> 0, turns |-> 0]
    /\ server = IdleServer

Next ==
    \/ \E t \in Threads, q \in UserQueries : CallAgent(t, q)
    \/ AgentStart
    \/ /\ retry.site = "model"
       /\ \E out \in {Ok(m) : m \in ModelResponses} \cup Faults(retry.outs # <<>>) :
              ModelInvoke(out)
    \/ AgentFinish
    \/ AgentThrow
    \/ ToolsStart
    \/ \E out \in {Ok(countDocuments(collection))} \cup Faults(FALSE) : ToolCount(out)
    \/ /\ retry.site = "search"
       /\ \E out \in {Ok(SearchResult)} \cup Faults(retry.outs # <<>>) : SearchInvoke(out)
    \/ ToolFinish
    \/ ToolsDone
    \/ ReturnResponse
    \/ RecursionError

Spec == Init /\ [][Next]_vars

\* an awaited upstream call settles: model.invoke, countDocuments or the
\* similarity search returns or fails
UpstreamSettles ==
    \/ /\ retry.site = "model"
       /\ \E out \in {Ok(m) : m \in ModelResponses} \cup Faults(retry.outs # <<>>) :
              ModelInvoke(out)
    \/ \E out \in {Ok(countDocuments(collection))} \cup Faults(FALSE) : ToolCount(out)
    \/ /\ retry.site = "search"
       /\ \E out \in {Ok(SearchResult)} \cup Faults(retry.outs # <<>>) : SearchInvoke(out)

\* the graph and the callers of the retry loop run on
Continues ==
    \/ AgentStart
    \/ AgentFinish
    \/ AgentThrow
    \/ ToolsStart
    \/ ToolsDone
    \/ ReturnResponse
    \/ RecursionError

\* the steps of a turn in progress: everything but the arrival of a new call
TurnStep ==
    \/ UpstreamSettles
    \/ Continues
    \/ ToolFinish

\* one call of callAgent, followed to its end
OneTurn ==
    \/ \E q \in UserQueries : env.turns = 0 /\ CallAgent("t1", q)
    \/ TurnStep

\* the retried search has settled and vectorSearchTool has not yet resumed: the
\* guard of ToolFinish, the one step such a state can take
SearchSettled == retry.site = "search" /\ retry.status \in {"returned", "thrown"}

\* Every awaited upstream call settles (it returns or fails) and the event loop
\* then runs the continuation: a turn that can take a step takes one.  For
\* ToolFinish, which is enabled exactly in the states SearchSettled and leaves
\* them, weak fairness is written as: the turn is not in SearchSettled forever.
FairSpec ==
    /\ Init /\ [][OneTurn]_vars
    /\ WF_vars(UpstreamSettles \/ Continues)
    /\ []<>(~SearchSettled)

-----------------------------------------------------------------------------
(* A direct caller of retryWithBackoff with an arbitrary operation *)

DirectValues == {"v1", "v2"}
DirectOutcomes == {Ok(v) : v \in DirectValues} \cup {Fail(e) : e \in UpstreamErrors}

DirectCall(mr) ==
    /\ retry.status \in {"idle", "returned", "thrown"}
    /\ retry' = NewRetry("direct", mr)
    /\ UNCHANGED agentVars

DirectCallDefault ==
    /\ retry.status \in {"idle", "returned", "thrown"}
    /\ retry' = NewRetry("direct", DefaultMaxRetries)
    /\ UNCHANGED agentVars

DirectInvoke(out) ==
    /\ retry.site = "direct"
    /\ RetryCanInvoke
    /\ retry' = RetryPass(retry, out)
    /\ UNCHANGED agentVars

DirectFallThrough ==
    /\ retry.site = "direct"
    /\ RetryAtEnd
    /\ retry' = RetryFallThrough(retry)
    /\ UNCHANGED agentVars

InitRetry ==
    /\ retry = IdleRetry
    /\ store = [t \in Threads |-> <<>>]
    /\ turn = IdleTurn
    /\ tool = IdleTool
    /\ collection = <<>>
    /\ apiKey = TRUE
    /\ env = [faulty |-> 0, asked |-> 0, turns |-> 0]
    /\ server = IdleServer

NextRetry ==
    \/ \E mr \in (0 - 1) .. MaxMaxRetries : DirectCall(mr)
    \/ DirectCallDefault
    \/ \E out \in DirectOutcomes : DirectInvoke(out)
    \/ DirectFallThrough

SpecRetry == InitRetry /\ [][NextRetry]_vars

-----------------------------------------------------------------------------
(* A direct caller of the retrieval tool, over collections of arbitrary hits *)

\* the longest collection of sample documents, and the largest n passed
MaxHits == 3

\* contents a stored document can have: none, empty, one line, several lines
Contents ==
    {Undef, Str(""), Str("Mangrove Bay restoration project"),
     Str("# Compliance\nRules for projects\n\nMore text")}

\* a document of the project seed: metadata.raw holds the structured fields
ProjectHit(pc, nm, loc, seq, pr, st) ==
    Obj([pageContent |-> pc,
         metadata |-> Obj([source |-> Str("dummyProjects"), _id |-> Str("h1"),
                           raw |-> Obj([projectName |-> nm, location |-> loc,
                                        carbonSequestration |-> seq,
                                        price |-> pr, stock |-> st])])])

\* a document of the csv seed: metadata.row holds the columns
CsvHit(pc, nm, luas, karbon, rating) ==
    Obj([pageContent |-> pc,
         metadata |-> Obj([source |-> Str("csv"), _id |-> Str("h2"),
                           row |-> Obj([nama_lokasi |-> nm, luas_ha |-> luas,
                                        karbon_terserap |-> karbon,
                                        rating_ulasan |-> rating])])])

\* a document whose metadata holds a source only
PlainHit(src, pc) ==
    Obj([pageContent |-> pc, metadata |-> Obj([source |-> src])])

\* a document without metadata
BareHit(pc) == Obj([pageContent |-> pc])

ProjectHits ==
    {ProjectHit(pc, nm, loc, seq, pr, st) :
        pc \in {Undef, Str("Mangrove Bay restoration project")},
        nm \in {Undef, Str("Mangrove Bay")}, loc \in {Undef, Str("Bali")},
        seq \in {Undef, Num(500)}, pr \in {Undef, Num(0), Num(50)},
        st \in {Undef, Num(7)}}

CsvHits ==
    {CsvHit(pc, nm, luas, karbon, rating) :
        pc \in {Undef, Str("Kalimantan Site A, 120 ha")},
        nm \in {Undef, Str("Kalimantan Site A")}, luas \in {Undef, Num(120)},
        karbon \in {Undef, Num(3)}, rating \in {Undef, Num(0), Num(5)}}

PlainHits ==
    {PlainHit(src, pc) :
        src \in {Undef, Str("dummyProjects"), Str("csv"), Str("markdown"), Str("website")},
        pc \in Contents}
      \cup {BareHit(pc) : pc \in Contents}

Hits == ProjectHits \cup CsvHits \cup PlainHits

SampleDocs == {ProjectDoc, CsvDoc, MarkdownDoc, BrokenDoc}

\* the collections of a direct call: one arbitrary hit, or up to MaxHits sample
\* documents (none for the empty collection)
HitCollections ==
    {<<h>> : h \in Hits}
      \cup UNION {[1..k -> SampleDocs] : k \in 0..MaxHits}

\* vectorSearchTool({ query, n }) called once; n = 0 stands for n left out
DirectToolCall(n) ==
    /\ tool = IdleTool
    /\ tool' = [IdleTool EXCEPT !.status = "count", !.pending = <<ToolCall(1, n)>>]
    /\ UNCHANGED <<retry, store, turn, collection, apiKey, env, server>>

InitTool ==
    /\ retry = IdleRetry
    /\ store = [t \in Threads |-> <<>>]
    /\ turn = IdleTurn
    /\ tool = IdleTool
    /\ collection \in HitCollections
    /\ apiKey = TRUE
    /\ env = [faulty |-> 0, asked |-> 0, turns |-> 0]
    /\ server = IdleServer

NextTool ==
    \/ \E n \in (IF Len(collection) > 1 THEN 0..MaxHits ELSE {0}) : DirectToolCall(n)
    \/ ToolCount(Ok(countDocuments(collection)))
    \/ /\ retry.site = "search"
       /\ SearchInvoke(Ok(SearchResult))
    \/ ToolFinish

SpecTool == InitTool /\ [][NextTool]_vars

-----------------------------------------------------------------------------
(* The HTTP endpoints that call callAgent (index.ts) *)

\* requests the server receives in a run, and milliseconds its clock advances
MaxRequests == 2
MaxClock == 1

\* Date.now().toString()
DateNowString(clock) == ToString(clock)

\* the thread ids of a run
ServerThreads == {DateNowString(c) : c \in 0..MaxClock}

\* req.body.message of the k-th request
MessageOfRequest(k) == "message " \o ToString(k)

\* how callAgent ends for a request: it resolves with a response text, or it
\* rejects with one of the errors its catch block throws
AgentResponses == {"", "Here are the top matches"}
AgentFailures == {AgentErrorMessage(e) : e \in {ErrRateStatus, ErrAuth, ErrOther}}

\* a JSON body; a property that is undefined is left out by res.json
Body(threadId, response, error) ==
    [threadId |-> threadId, response |-> response, error |-> error]

\* a request being handled; `error` is what the catch block caught (error.message)
NewRequest(endpoint, threadId, message) ==
    [endpoint |-> endpoint, threadId |-> threadId, message |-> message,
     status |-> "pending", code |-> 0, body |-> Body(Undefined, Undefined, Undefined),
     error |-> Undefined]

\* the clock advances by one millisecond
Tick ==
    /\ server.clock < MaxClock
    /\ server' = [server EXCEPT !.clock = @ + 1]
    /\ UNCHANGED <<retry, store, turn, tool, collection, apiKey, env>>

\* app.post('/chat'): the thread id is taken from the clock and callAgent is
\* called, which puts the user's message on that thread
PostChat ==
    /\ Len(server.requests) < MaxRequests
    /\ LET threadId == DateNowString(server.clock)
           message  == MessageOfRequest(Len(server.requests) + 1)
       IN  /\ server' = [server EXCEPT
                           !.requests = Append(@, NewRequest("/chat", threadId, message))]
           /\ store' = [store EXCEPT ![threadId] = reducer(@, <<HumanMessage(message)>>)]
    /\ UNCHANGED <<retry, turn, tool, collection, apiKey, env>>

\* app.post('/chat/:threadId'): callAgent is called on the thread of the path
PostChatThread(threadId) ==
    /\ Len(server.requests) < MaxRequests
    /\ LET message == MessageOfRequest(Len(server.requests) + 1)
       IN  /\ server' = [server EXCEPT
                           !.requests = Append(@, NewRequest("/chat/:threadId", threadId, message))]
           /\ store' = [store EXCEPT ![threadId] = reducer(@, <<HumanMessage(message)>>)]
    /\ UNCHANGED <<retry, turn, tool, collection, apiKey, env>>

\* callAgent resolved for request i: res.json({ threadId, response }) on /chat,
\* res.json({ response }) on /chat/:threadId
AgentResolves(i, response) ==
    /\ server.requests[i].status = "pending"
    /\ LET req == server.requests[i]
       IN  /\ server' = [server EXCEPT !.requests[i] =
                 [req EXCEPT !.status = "sent", !.code = 200,
                    !.body = IF req.endpoint = "/chat"
                             THEN Body(req.threadId, response, Undefined)
                             ELSE Body(Undefined, response, Undefined)]]
           /\ store' = [store EXCEPT ![req.threadId] =
                          reducer(@, <<AIMessage(response, <<>>)>>)]
    /\ UNCHANGED <<retry, turn, tool, collection, apiKey, env>>

\* error.message || 'Internal Server Error'
ErrorText(message) == IF message = "" THEN "Internal Server Error" ELSE message

\* callAgent rejected for request i: the catch block of the endpoint
AgentRejects(i, message) ==
    /\ server.requests[i].status = "pending"
    /\ LET req == server.requests[i]
       IN  server' = [server EXCEPT !.requests[i] =
                 [req EXCEPT !.status = "sent", !.code = 500, !.error = message,
                    !.body = IF req.endpoint = "/chat"
                             THEN Body(Undefined, Undefined, ErrorText(message))
                             ELSE Body(Undefined, Undefined, "Internal Server Error")]]
    /\ UNCHANGED <<retry, store, turn, tool, collection, apiKey, env>>

InitServer ==
    /\ retry = IdleRetry
    /\ store = [t \in ServerThreads |-> <<>>]
    /\ turn = IdleTurn
    /\ tool = IdleTool
    /\ collection = <<>>
    /\ apiKey = TRUE
    /\ env = [faulty |-> 0, asked |-> 0, turns |-> 0]
    /\ server = IdleServer

NextServer ==
    \/ Tick
    \/ PostChat
    \/ \E t \in ServerThreads : PostChatThread(t)
    \/ \E i \in 1..Len(server.requests), r \in AgentResponses : AgentResolves(i, r)
    \/ \E i \in 1..Len(server.requests), m \in AgentFailures : AgentRejects(i, m)

SpecServer == InitServer /\ [][NextServer]_vars

-----------------------------------------------------------------------------
(* Claims about retryWithBackoff, checked under SpecRetry *)

\* a rate-limit signal: error status or code equal to 429
RateSignal(e) == e.status = 429 \/ e.code = 429

\* every outcome in `outs` is a failure with a rate-limit signal
AllRateFailures(outs) ==
    \A i \in 1..Len(outs) : ~outs[i].ok /\ RateSignal(outs[i].err)

\* C1: for maxAttempts >= 1, an operation that fails with a rate-limit signal
\* k < maxAttempts times and then succeeds makes retryWithBackoff return that
\* success value after exactly k+1 invocations; while fewer than maxAttempts
\* rate-limited failures have happened the helper is still going to invoke it.
C1_SuccessAfterRateLimits ==
    LET n == Len(retry.outs)
    IN  retry.maxRetries >= 1 =>
          /\ (n >= 1 /\ retry.outs[n].ok /\ AllRateFailures(SubSeq(retry.outs, 1, n - 1)))
               => /\ retry.status = "returned"
                  /\ retry.value = retry.outs[n].value
                  /\ retry.calls = n
          /\ (retry.status # "idle" /\ AllRateFailures(retry.outs) /\ n < retry.maxRetries)
               => /\ retry.status = "running"
                  /\ retry.calls = n
                  /\ retry.attempt = n + 1

C1_Witness ==
    /\ retry.status = "returned" /\ retry.maxRetries = 4
    /\ Len(retry.outs) = 3 /\ retry.calls = 3
    /\ AllRateFailures(SubSeq(retry.outs, 1, 2))
    /\ retry.value = "v2"

\* C2: an operation whose first failure is a non-rate-limit error is invoked
\* exactly once, without any sleep, and retryWithBackoff fails with that same
\* error.
C2_NonRateLimitPropagates ==
    (Len(retry.outs) >= 1 /\ ~retry.outs[1].ok /\ ~RateSignal(retry.outs[1].err))
      => /\ retry.status = "thrown"
         /\ retry.error = retry.outs[1].err
         /\ retry.calls = 1
         /\ Len(retry.outs) = 1
         /\ retry.sleeps = <<>>

C2_Witness ==
    /\ retry.status = "thrown" /\ retry.error = ErrAuth
    /\ retry.calls = 1 /\ retry.sleeps = <<>> /\ retry.maxRetries = 3

\* three rate-limited failures under maxAttempts = 3
ThreeRateLimits ==
    retry.maxRetries = 3 /\ Len(retry.outs) = 3 /\ AllRateFailures(retry.outs)

\* C3 as stated: an operation that always fails with a rate-limit signal under
\* maxAttempts = 3 ends retryWithBackoff with the "max retries exceeded" error.
C3_Original ==
    ThreeRateLimits => retry.status = "thrown" /\ retry.error = MaxRetriesError

\* C3 amended: under maxAttempts = 3 an operation that always fails with a
\* rate-limit signal ends retryWithBackoff, after the third invocation, with the
\* rate-limit error of that third invocation, not with "Max retries exceeded".
C3_LastRateLimitErrorPropagates ==
    ThreeRateLimits
      => /\ retry.status = "thrown"
         /\ retry.error = retry.outs[3].err
         /\ RateSignal(retry.error)
         /\ retry.error # MaxRetriesError

C3_Witness ==
    /\ ThreeRateLimits /\ retry.status = "thrown"
    /\ retry.error = ErrRateStatus /\ retry.outs[1].err = ErrRateCode

\* C4: with maxAttempts >= 1 the operation is never invoked more than
\* maxAttempts times; an operation that always fails with a rate-limit signal
\* is invoked exactly maxAttempts times, and then retryWithBackoff fails.
C4_AtMostMaxAttempts ==
    retry.maxRetries >= 1 =>
      /\ retry.calls <= retry.maxRetries
      /\ retry.calls = Len(retry.outs)
      /\ (AllRateFailures(retry.outs) /\ retry.status = "thrown")
           => retry.calls = retry.maxRetries
      /\ (AllRateFailures(retry.outs) /\ Len(retry.outs) = retry.maxRetries)
           => retry.status = "thrown"

C4_Witness ==
    /\ retry.maxRetries = 5 /\ retry.status = "thrown" /\ retry.calls = 5
    /\ AllRateFailures(retry.outs) /\ Len(retry.sleeps) = 4

-----------------------------------------------------------------------------
(* Claims about the turn, checked under Spec *)

InTurn == turn.status # "idle"

\* the messages the current invocation has added to its thread's history
TurnMessages ==
    IF InTurn /\ turn.failedAt # "config"
    THEN SubSeq(Messages, turn.base + 1, Len(Messages)) ELSE <<>>

\* positions of the assistant messages among TurnMessages
Responses == {i \in 1..Len(TurnMessages) : TurnMessages[i].role = "ai"}

RateLimitedText == "Rate limited; try again later."

\* C5: when the model call keeps failing with a rate-limit signal (status or
\* code 429) until the retries are exhausted, callAgent fails with the error
\* "Rate limited; try again later.".
C5_RateLimitedMessage ==
    (turn.status = "failed" /\ turn.failedAt = "model" /\ RateSignal(turn.cause))
      => turn.error = RateLimitedText

\* the turn ended with the recursion-cap error
RecursionCapped ==
    turn.status = "failed" /\ turn.cause = GraphRecursionError

\* C6 as stated: the recursion-cap error comes after exactly 12 decide/execute
\* cycles.
C6_Original ==
    RecursionCapped => turn.decides = 12 /\ turn.executes = 12

\* C6 amended: a turn in which every response requests a tool invocation ends
\* with the recursion-cap error after exactly 6 complete decide/execute cycles
\* (the limit of 12 counts graph steps, and a model response and a tools
\* execution are one step each); no turn runs a seventh cycle.
C6_CapAfterSixCycles ==
    InTurn =>
      /\ turn.executes <= 6
      /\ turn.decides <= turn.executes + 1
      /\ turn.steps = Cardinality(Responses) + turn.executes
      /\ RecursionCapped
           => /\ turn.executes = 6
              /\ Cardinality(Responses) >= 6
              /\ Cardinality({i \in Responses : Len(TurnMessages[i].tool_calls) > 0}) >= 6
      /\ (turn.status = "running" /\ turn.executes = 6 /\ turn.next = "tools")
           => turn.steps > RecursionLimit

C6_Witness ==
    /\ RecursionCapped /\ turn.executes = 6
    /\ turn.error = "Agent error: " \o RecursionMessage
    /\ \A i \in Responses : Len(TurnMessages[i].tool_calls) > 0

\* the first response of the turn, when there is one
HasFirstResponse == Len(TurnMessages) >= 2
FirstResponse == TurnMessages[2]

\* C7: when the first response carries no tool invocation, the turn ends after
\* one decide cycle: one response, no tool execution (the model is invoked once,
\* plus once per rate-limited attempt that was retried), and callAgent returns
\* that response's content, or "" when it has none.
C7_DirectAnswer ==
    (InTurn /\ HasFirstResponse /\ FirstResponse.tool_calls = <<>>)
      => /\ turn.status \in {"running", "returned"}
         /\ Len(TurnMessages) = 2
         /\ turn.decides = 1 /\ turn.executes = 0 /\ turn.toolRuns = 0
         /\ turn.modelCalls = 1 + turn.modelFails
         /\ turn.steps = 1
         /\ turn.status = "running" => turn.next = "end"
         /\ turn.status = "returned"
              => turn.response = IF FirstResponse.content = Undefined THEN ""
                                 ELSE FirstResponse.content

C7_Witness ==
    /\ turn.status = "returned" /\ HasFirstResponse
    /\ FirstResponse.tool_calls = <<>> /\ FirstResponse.content = Undefined
    /\ turn.response = "" /\ turn.modelCalls = 1

C7_WitnessText ==
    /\ turn.status = "returned" /\ HasFirstResponse
    /\ FirstResponse.tool_calls = <<>>
    /\ turn.response = "Here are the top matches" /\ turn.base > 0

\* the turn's first response asks for one tool invocation and its second for none
OneToolThenAnswer ==
    /\ InTurn /\ Cardinality(Responses) >= 2
    /\ Len(FirstResponse.tool_calls) = 1
    /\ LET second == CHOOSE i \in Responses \ {2} : \A j \in Responses \ {2} : i <= j
       IN  TurnMessages[second].tool_calls = <<>>

\* C8: when the first response requests one tool invocation and the second
\* none, the turn completes in exactly two decide cycles and the tool-result
\* message lies between the two assistant messages in the history.
C8_OneToolRoundTrip ==
    OneToolThenAnswer
      => /\ Len(TurnMessages) = 4
         /\ TurnMessages[1].role = "human"
         /\ TurnMessages[2].role = "ai"
         /\ TurnMessages[3].role = "tool"
         /\ TurnMessages[3].tool_call_id = TurnMessages[2].tool_calls[1].id
         /\ TurnMessages[4].role = "ai"
         /\ turn.decides = 2 /\ turn.executes = 1 /\ turn.toolRuns = 1
         /\ turn.status \in {"running", "returned"}
         /\ turn.status = "running" => turn.next = "end"
         /\ turn.status = "returned" => turn.steps = 3

C8_Witness ==
    /\ OneToolThenAnswer /\ turn.status = "returned" /\ turn.decides = 2
    /\ "results" \in DOMAIN TurnMessages[3].content
    /\ TurnMessages[4].content = "Here are the top matches"

\* the text an error carries: its message, or its string form when it has none
MessageOf(e) == IF e.message = Undefined THEN "[object Object]" ELSE e.message

\* a stored document whose content is neither text nor absent
NonText(doc) ==
    LET pc == Get(doc, "pageContent") IN pc.t \notin {"string", "undefined", "null"}

\* the content of a tool message is one of the tool's three envelopes
IsEnvelope(c) ==
    \/ DOMAIN c = {"error", "message", "count"} /\ c.error = "empty_db"
    \/ DOMAIN c = {"error", "details", "query"} /\ c.error = "search_error"
    \/ DOMAIN c = {"results", "searchType", "query", "count"}

IsSearchError(c, text) ==
    DOMAIN c = {"error", "details", "query"}
      /\ c.error = "search_error" /\ c.details = text /\ c.query = SearchQuery

\* C9: the retrieval tool never raises: whatever the document count, the
\* similarity search and the normalization do, each executed call yields an
\* envelope, and when one of them failed the envelope has error "search_error"
\* and carries the message of the error.
C9_ToolNeverRaises ==
    /\ Len(tool.out) = Len(tool.trace)
    /\ \A i \in 1..Len(tool.out) :
         LET c  == tool.out[i].content
             tr == tool.trace[i]
             n  == Len(tr.search)
         IN  /\ IsEnvelope(c)
             /\ ~tr.count.ok => IsSearchError(c, MessageOf(tr.count.err))
             /\ (tr.count.ok /\ n > 0 /\ ~tr.search[n].ok)
                  => IsSearchError(c, MessageOf(tr.search[n].err))
             /\ (tr.count.ok /\ n > 0 /\ tr.search[n].ok
                   /\ \E j \in 1..Len(tr.search[n].value) :
                        NonText(tr.search[n].value[j][1]))
                  => /\ DOMAIN c = {"error", "details", "query"}
                     /\ c.error = "search_error"
                     /\ c.details # "" /\ c.details # Undefined
    /\ \A t \in Threads : \A i \in 1..Len(store[t]) :
         store[t][i].role = "tool" => IsEnvelope(store[t][i].content)
    /\ turn.failedAt # "tools"

C9_WitnessCount ==
    \E i \in 1..Len(tool.out) :
        /\ ~tool.trace[i].count.ok
        /\ IsSearchError(tool.out[i].content, "API key not valid")

C9_Witness ==
    \E i \in 1..Len(tool.out) :
        LET tr == tool.trace[i]
        IN  /\ tr.count.ok /\ Len(tr.search) = 3 /\ AllRateFailures(tr.search)
            /\ IsSearchError(tool.out[i].content, "Resource exhausted")

C9_WitnessNormalize ==
    \E i \in 1..Len(tool.out) :
        LET tr == tool.trace[i]
        IN  /\ tr.count.ok /\ Len(tr.search) = 1 /\ tr.search[1].ok
            /\ IsSearchError(tool.out[i].content,
                             "(doc.pageContent ?? \"\").slice is not a function")

\* positions of the tool messages of this turn that carry a search_error envelope
SearchErrors ==
    {i \in 1..Len(TurnMessages) :
        /\ TurnMessages[i].role = "tool"
        /\ "error" \in DOMAIN TurnMessages[i].content
        /\ TurnMessages[i].content.error = "search_error"}

\* C10: a failed retrieval-tool call does not abort the turn: its error envelope
\* is appended to the history as the tool-result message, the controller goes
\* back to decide, the model is invoked with a history that holds the envelope,
\* and no turn fails at the tools node.
C10_FailedToolDoesNotAbort ==
    InTurn =>
      /\ turn.failedAt # "tools"
      /\ (turn.status = "running" /\ tool.status = "idle" /\ SearchErrors # {}
            /\ Len(TurnMessages) \in SearchErrors)
           => turn.next = "agent"
      /\ (retry.site = "model" /\ retry.calls > 0)
           => /\ turn.prompt = Messages
              /\ \A i \in SearchErrors : turn.prompt[turn.base + i] = TurnMessages[i]
      /\ \A i \in SearchErrors :
           \E j \in 1..(i - 1) :
              /\ TurnMessages[j].role = "ai"
              /\ \E k \in 1..Len(TurnMessages[j].tool_calls) :
                   TurnMessages[j].tool_calls[k].id = TurnMessages[i].tool_call_id

C10_Witness ==
    /\ turn.status = "returned" /\ SearchErrors # {}
    /\ turn.response = "Here are the top matches"
    /\ turn.decides = 2 /\ turn.modelCalls = 2

-----------------------------------------------------------------------------
(* Claims about the retrieval tool's results, checked under Spec *)

\* the executed tool calls whose document count was 0
EmptyCounts ==
    {i \in 1..Len(tool.trace) : tool.trace[i].count.ok /\ tool.trace[i].count.value = 0}

\* C11: when the document count is 0 the retrieval tool returns the envelope
\* with error "empty_db" and count 0, and no similarity search (hence no retry
\* loop around it) is started during that invocation.
C11_EmptyDbShortCircuit ==
    /\ \A i \in EmptyCounts :
         /\ DOMAIN tool.out[i].content = {"error", "message", "count"}
         /\ tool.out[i].content.error = "empty_db"
         /\ tool.out[i].content.count = 0
         /\ tool.trace[i].search = <<>>
    /\ retry.site = "search" => tool.count.ok /\ tool.count.value # 0
    /\ collection = <<>> => retry.site # "search"

C11_Witness ==
    /\ collection = <<>> /\ EmptyCounts = {1}
    /\ tool.out[1].content = EmptyDbEnvelope
    /\ retry = IdleRetry /\ turn.toolRuns = 1

-----------------------------------------------------------------------------
(* Claims about the retrieval tool called directly, checked under SpecTool *)

\* the pairs the similarity search of the i-th executed call returned
PairsOf(i) == tool.trace[i].search[Len(tool.trace[i].search)].value

\* the executed calls whose similarity search returned pairs of documents with
\* text (or absent) content
Searched ==
    {i \in 1..Len(tool.trace) :
        /\ tool.trace[i].count.ok /\ tool.trace[i].count.value > 0
        /\ tool.trace[i].search # <<>>
        /\ tool.trace[i].search[Len(tool.trace[i].search)].ok
        /\ \A j \in 1..Len(PairsOf(i)) : ~NonText(PairsOf(i)[j][1])}

\* C12: when the collection is non-empty and the similarity search returns m
\* (document, score) pairs, the retrieval tool returns a success envelope with
\* searchType "vector", the query, count = m and m results, the i-th result
\* carrying the score and the document of the i-th pair.
C12_SuccessEnvelope ==
    \A i \in Searched :
        LET c == tool.out[i].content
            m == Len(PairsOf(i))
        IN  /\ DOMAIN c = {"results", "searchType", "query", "count"}
            /\ c.searchType = "vector"
            /\ c.query = SearchQuery
            /\ c.count = m
            /\ Len(c.results) = m
            /\ \A j \in 1..m : /\ c.results[j].score = PairsOf(i)[j][2]
                               /\ c.results[j].full = PairsOf(i)[j][1]

C12_Witness ==
    /\ Searched = {1} /\ Len(collection) = 3
    /\ Head(tool.trace[1].search).value = <<<<ProjectDoc, 90>>, <<CsvDoc, 80>>, <<MarkdownDoc, 70>>>>
    /\ tool.out[1].content.count = 3
    /\ tool.out[1].content.results[3].score = 70
    /\ tool.out[1].content.results[3].full = MarkdownDoc

\* C13: the Result Normalizer is total and its summary is never empty: for
\* every hit with text, empty or absent content, with or without metadata, the
\* tool's envelope holds a result whose summary has length > 0.
C13_SummaryNeverEmpty ==
    \A i \in Searched :
        LET c == tool.out[i].content
        IN  /\ "results" \in DOMAIN c
            /\ \A j \in 1..Len(c.results) : Len(c.results[j].summary) > 0

\* a value is present when it is neither undefined nor null
Present(v) == v.t \notin {"undefined", "null"}

\* how a present string or number reads in a summary
Shown(v) == IF v.t = "string" THEN v.s ELSE ToString(v.n)

\* one optional part of a summary: included or left out
Part(included, label, v, unit) ==
    IF included THEN " | " \o label \o ": " \o Shown(v) \o unit ELSE ""

SourceOf(doc) == Get(Get(doc, "metadata"), "source")
RawOf(doc) == Get(Get(doc, "metadata"), "raw")
RowOf(doc) == Get(Get(doc, "metadata"), "row")

\* the summary of a project record: the prefix and name, then the parts for
\* location, sequestration, price and stock in that order, each included only
\* if its value is present
IsProjectSummary(summary, doc) ==
    LET raw  == RawOf(doc)
        vals == <<Get(raw, "location"), Get(raw, "carbonSequestration"),
                  Get(raw, "price"), Get(raw, "stock")>>
        name == Get(raw, "projectName")
    IN  \E b \in [1..4 -> BOOLEAN] :
          /\ \A k \in 1..4 : b[k] => Present(vals[k])
          /\ LET parts == Part(b[1], "Location", vals[1], "")
                            \o Part(b[2], "Est. sequestration", vals[2], "")
                            \o Part(b[3], "Price", vals[3], "")
                            \o Part(b[4], "Stock", vals[4], "")
                 rest  == Len(summary) - Len(parts)
             IN  /\ rest >= Len("Project: ")
                 /\ SubSeq(summary, 1, Len("Project: ")) = "Project: "
                 /\ SubSeq(summary, rest + 1, Len(summary)) = parts
                 /\ Present(name) => summary = "Project: " \o Shown(name) \o parts

\* the summary of a tabular row: the prefix and name, then the parts for area,
\* carbon captured and rating in that order, each included only if present
IsRowSummary(summary, doc) ==
    LET row  == RowOf(doc)
        vals == <<Get(row, "luas_ha"), Get(row, "karbon_terserap"),
                  Get(row, "rating_ulasan")>>
        name == Get(row, "nama_lokasi")
    IN  \E b \in [1..3 -> BOOLEAN] :
          /\ \A k \in 1..3 : b[k] => Present(vals[k])
          /\ LET parts == Part(b[1], "Area", vals[1], " ha")
                            \o Part(b[2], "Carbon captured", vals[2], "")
                            \o Part(b[3], "Rating", vals[3], "")
                 rest  == Len(summary) - Len(parts)
             IN  /\ rest >= Len("Location: ")
                 /\ SubSeq(summary, 1, Len("Location: ")) = "Location: "
                 /\ SubSeq(summary, rest + 1, Len(summary)) = parts
                 /\ Present(name) => summary = "Location: " \o Shown(name) \o parts

\* the two records of the examples
ExampleProject ==
    ProjectHit(Undef, Str("Mangrove Bay"), Str("Bali"), Undef, Num(50), Undef)
ExampleRow ==
    CsvHit(Undef, Str("Kalimantan Site A"), Num(120), Undef, Undef)

\* C14: in the project-record and tabular-row branches the summary is the
\* prefix "Project: {name}" / "Location: {name}" followed by pipe-delimited
\* suffixes in the fixed order location, sequestration, price, stock / area,
\* carbon captured, rating, each included only if its value is present; the two
\* example records give exactly the two example summaries.
C14_SummaryComposition ==
    \A i \in Searched :
        LET c == tool.out[i].content
        IN  \A j \in 1..Len(c.results) :
              LET doc     == PairsOf(i)[j][1]
                  summary == c.results[j].summary
              IN  /\ SourceOf(doc) = Str("dummyProjects") /\ Present(RawOf(doc))
                       => IsProjectSummary(summary, doc)
                  /\ SourceOf(doc) = Str("csv") /\ Present(RowOf(doc))
                       => IsRowSummary(summary, doc)
                  /\ doc = ExampleProject
                       => summary = "Project: Mangrove Bay | Location: Bali | Price: 50"
                  /\ doc = ExampleRow
                       => summary = "Location: Kalimantan Site A | Area: 120 ha"

C14_Witness ==
    /\ Searched = {1} /\ collection = <<ExampleRow>>
    /\ tool.out[1].content.results[1].summary = "Location: Kalimantan Site A | Area: 120 ha"

C14_WitnessProject ==
    /\ Searched = {1} /\ collection = <<ExampleProject>>
    /\ tool.out[1].content.results[1].summary
         = "Project: Mangrove Bay | Location: Bali | Price: 50"

\* the text `part` occurs in the text s
Contains(s, part) ==
    \E k \in 1..(Len(s) - Len(part) + 1) : SubSeq(s, k, k + Len(part) - 1) = part

\* C15: a missing field is silently omitted and never rendered as a placeholder
\* token: no summary contains the text of an absent value ("undefined", "null"),
\* also when the name and the content it falls back to are both absent.
C15_NoPlaceholderToken ==
    \A i \in Searched :
        LET c == tool.out[i].content
        IN  "results" \in DOMAIN c =>
              \A j \in 1..Len(c.results) :
                  /\ ~Contains(c.results[j].summary, "undefined")
                  /\ ~Contains(c.results[j].summary, "null")

-----------------------------------------------------------------------------
(* Claims about histories and threads, checked under Spec *)

\* the tool-result messages of history h that answer the request `id` of the
\* assistant message at position i: they lie after i and before the next
\* tool-free assistant message
Answers(h, i, id) ==
    {j \in (i + 1)..Len(h) :
        /\ h[j].role = "tool" /\ h[j].tool_call_id = id
        /\ \A m \in (i + 1)..(j - 1) : ~(h[m].role = "ai" /\ h[m].tool_calls = <<>>)}

\* every request of every assistant message of h has exactly one answer
Paired(h) ==
    \A i \in 1..Len(h) :
        h[i].role = "ai" =>
          \A k \in 1..Len(h[i].tool_calls) :
              Cardinality(Answers(h, i, h[i].tool_calls[k].id)) = 1

\* C16: in every history a turn leaves behind, each tool-invocation request of
\* an assistant message is followed, before the next tool-free assistant
\* response, by exactly one tool-result message with the matching reference.
C16_RequestsAnswered ==
    turn.status \in {"returned", "failed"} => \A t \in Threads : Paired(store[t])

IsPrefix(a, b) == Len(a) <= Len(b) /\ SubSeq(b, 1, Len(a)) = a

\* C17: history accumulates across the turns of a thread: no step removes or
\* reorders a message of any thread, a new turn on thread t adds the new user
\* message after everything the earlier turns on t left, and each model call
\* receives the whole history of its thread.
C17_HistoryAccumulates ==
    [][ /\ \A t \in Threads : IsPrefix(store[t], store'[t])
        /\ (env'.turns > env.turns /\ turn'.status = "running")
             => /\ Len(store'[turn'.thread]) = Len(store[turn'.thread]) + 1
                /\ store'[turn'.thread][Len(store'[turn'.thread])].role = "human"
                /\ turn'.base = Len(store[turn'.thread])
        /\ turn'.modelCalls > turn.modelCalls
             => /\ turn'.prompt = store[turn.thread]
                /\ turn'.thread = turn.thread
      ]_vars

\* a second turn on a thread whose first turn used the tool: the model has
\* received the four earlier messages followed by the new user message
C17_Witness ==
    /\ env.turns = 2 /\ turn.status = "returned" /\ turn.base = 4
    /\ Len(turn.prompt) = 5
    /\ turn.prompt = SubSeq(store[turn.thread], 1, 5)
    /\ turn.prompt[1].role = "human" /\ turn.prompt[2].role = "ai"
    /\ turn.prompt[3].role = "tool" /\ turn.prompt[4].role = "ai"
    /\ turn.prompt[5].role = "human"

-----------------------------------------------------------------------------
(* Claims about the HTTP endpoints, checked under SpecServer *)

\* the requests that POST /chat has received
NewSessions == {i \in 1..Len(server.requests) : server.requests[i].endpoint = "/chat"}

\* C18: every POST /chat request starts a new chat session: its thread id
\* differs from the thread id of every other POST /chat request, also when
\* requests arrive concurrently, so no thread's history holds the messages of
\* two new sessions.
C18_FreshThreadIds ==
    \A i, j \in NewSessions :
        i # j => /\ server.requests[i].threadId # server.requests[j].threadId
                 /\ \A t \in ServerThreads :
                      ~(\E a, b \in 1..Len(store[t]) :
                           /\ store[t][a].content = server.requests[i].message
                           /\ store[t][b].content = server.requests[j].message)

-----------------------------------------------------------------------------
(* Further claims about retryWithBackoff, checked under SpecRetry *)

\* min(1000 * 2^attempt, 30000)
CappedDelay(attempt) ==
    IF 1000 * (2 ^ attempt) > 30000 THEN 30000 ELSE 1000 * (2 ^ attempt)

\* C19: before the retry that follows the attempt-th rate-limited failure
\* (attempt < maxAttempts) retryWithBackoff sleeps min(1000 * 2^attempt, 30000)
\* ms, once per retry: 2000 then 4000 for the default budget; the delays never
\* decrease and never exceed 30000.
C19_BackoffDelays ==
    retry.status # "idle" =>
      /\ \A k \in 1..Len(retry.sleeps) :
           /\ retry.sleeps[k] = CappedDelay(k)
           /\ retry.sleeps[k] <= 30000
           /\ k < retry.maxRetries
           /\ ~retry.outs[k].ok /\ RateSignal(retry.outs[k].err)
           /\ k > 1 => retry.sleeps[k - 1] <= retry.sleeps[k]
      /\ (retry.maxRetries >= 1 /\ AllRateFailures(retry.outs))
           => Len(retry.sleeps) = IF Len(retry.outs) < retry.maxRetries
                                  THEN Len(retry.outs) ELSE retry.maxRetries - 1
      /\ (retry.maxRetries = 3 /\ Len(retry.outs) = 3 /\ AllRateFailures(retry.outs))
           => retry.sleeps = <<2000, 4000>>

C19_Witness ==
    /\ retry.maxRetries = 6 /\ retry.status = "thrown"
    /\ retry.sleeps = <<2000, 4000, 8000, 16000, 30000>>

C19_WitnessDefault ==
    /\ retry.maxRetries = 3 /\ retry.status = "returned"
    /\ retry.sleeps = <<2000, 4000>>

-----------------------------------------------------------------------------
(* Claims about authentication errors, checked under Spec *)

AuthFailure(out) == ~out.ok /\ out.err.status = 401

AuthText == "Authentication error; check API key."

\* a failure with status 401 ends the retry loop it occurs in: it is the last
\* outcome of the loop
NotRetried(outs) == \A k \in 1..Len(outs) : AuthFailure(outs[k]) => k = Len(outs)

\* the tool messages of this turn that report the 401 error
AuthEnvelopes == {i \in SearchErrors : TurnMessages[i].content.details = ErrAuth.message}

\* C20 as stated: a 401 is surfaced as the authentication error wherever in the
\* turn it occurs, so no turn in which an upstream call failed with 401 goes on
\* to return a response.
C20_Original ==
    /\ (turn.status = "failed" /\ turn.cause.status = 401) => turn.error = AuthText
    /\ turn.status = "returned" => AuthEnvelopes = {}

\* C20 amended: a 401 is never retried; when it occurs in the model call,
\* callAgent fails at once with "Authentication error; check API key."; when it
\* occurs inside the retrieval tool (document count or similarity search) it is
\* returned to the model in a search_error envelope and the turn goes on.
C20_AuthNotRetried ==
    /\ NotRetried(retry.outs)
    /\ (retry.outs # <<>> /\ AuthFailure(retry.outs[Len(retry.outs)]))
         => retry.status = "thrown" /\ retry.error = retry.outs[Len(retry.outs)].err
    /\ (turn.status = "failed" /\ turn.cause.status = 401)
         => /\ turn.failedAt = "model"
            /\ turn.error = AuthText
            /\ turn.prompt = Messages
    /\ \A i \in 1..Len(tool.trace) :
         LET tr == tool.trace[i]
         IN  /\ NotRetried(tr.search)
             /\ (AuthFailure(tr.count)
                   \/ (tr.search # <<>> /\ AuthFailure(tr.search[Len(tr.search)])))
                  => /\ IsSearchError(tool.out[i].content, ErrAuth.message)
                     /\ turn.status = "running"

C20_Witness ==
    /\ turn.status = "failed" /\ turn.failedAt = "model" /\ turn.cause = ErrAuth
    /\ turn.error = AuthText /\ turn.modelCalls = 1 /\ turn.modelFails = 1

C20_WitnessTool ==
    /\ turn.status = "returned" /\ AuthEnvelopes # {}

-----------------------------------------------------------------------------
(* Claims about termination, checked under FairSpec *)

TurnRunning == turn.status = "running"
TurnEnded == turn.status \in {"returned", "failed"}

\* the three outcomes of a turn
EndedWithResponse == turn.status = "returned" /\ turn.failedAt = "none"
EndedAtCap == turn.status = "failed" /\ turn.failedAt = "recursion"
EndedWithError == turn.status = "failed" /\ turn.failedAt \in {"model", "config"}

\* C21: every turn eventually ends, whatever the model, the search and the
\* rate limiter do, provided each upstream call returns or fails: the loops are
\* bounded (at most recursionLimit + 1 graph steps, at most maxRetries attempts
\* per retried call), a running turn always ends, and it ends in exactly one of:
\* a response returned, the recursion-cap error, an unrecoverable error.
C21_TurnTerminates ==
    /\ [](TurnRunning => /\ turn.steps <= RecursionLimit + 1
                         /\ retry.attempt <= DefaultMaxRetries
                         /\ retry.calls <= DefaultMaxRetries)
    /\ [](TurnEnded => /\ Cardinality({o \in {"response", "cap", "error"} :
                              \/ o = "response" /\ EndedWithResponse
                              \/ o = "cap" /\ EndedAtCap
                              \/ o = "error" /\ EndedWithError}) = 1
                       /\ retry.status = "idle" /\ tool.status = "idle")
    /\ (TurnRunning ~> TurnEnded)

\* a turn that went through a rate-limited model call, a tool execution with a
\* retried search, and ended with a response
C21_Witness ==
    /\ EndedWithResponse /\ turn.executes >= 1 /\ turn.modelFails >= 1
    /\ turn.decides >= 2

C21_WitnessCap ==
    EndedAtCap /\ turn.executes = 6

-----------------------------------------------------------------------------
(* Claims about the terminal error of retryWithBackoff, checked under SpecRetry *)

DirectFinished == retry.site = "direct" /\ retry.status \in {"returned", "thrown"}
MaxRetriesExceeded == retry.status = "thrown" /\ retry.error = MaxRetriesError
LastOutcome == retry.outs[Len(retry.outs)]

\* C23: a call of retryWithBackoff ends with "Max retries exceeded" exactly when
\* maxRetries <= 0, and then the operation was never invoked (the loop body is
\* not entered and the only continuation is the throw after the loop); with
\* maxRetries >= 1 the call ends with the value the last invocation returned or
\* with the error the last invocation threw.
C23_MaxRetriesOnlyWithoutAttempts ==
    /\ (retry.site = "direct" /\ retry.status = "running")
          => /\ RetryAtEnd <=> retry.maxRetries <= 0
             /\ retry.maxRetries <= 0 => retry.calls = 0 /\ ~RetryCanInvoke
    /\ DirectFinished =>
          /\ MaxRetriesExceeded <=> retry.maxRetries <= 0
          /\ retry.maxRetries <= 0 => retry.calls = 0 /\ retry.outs = <<>>
          /\ retry.maxRetries >= 1 =>
                /\ retry.calls >= 1 /\ Len(retry.outs) = retry.calls
                /\ \/ /\ retry.status = "returned" /\ LastOutcome.ok
                      /\ retry.value = LastOutcome.value
                   \/ /\ retry.status = "thrown" /\ ~LastOutcome.ok
                      /\ retry.error = LastOutcome.err

\* called with no attempts: the terminal error, the operation never invoked
C23_Witness ==
    /\ DirectFinished /\ retry.maxRetries = 0
    /\ MaxRetriesExceeded /\ retry.calls = 0

C23_WitnessNegative ==
    /\ DirectFinished /\ retry.maxRetries = 0 - 1
    /\ MaxRetriesExceeded /\ retry.calls = 0

\* two attempts, both rate-limited: the error of the second invocation comes out
C23_WitnessLastError ==
    /\ DirectFinished /\ retry.maxRetries = 2 /\ retry.calls = 2
    /\ retry.outs = <<Fail(ErrRateCode), Fail(ErrRateStatus)>>
    /\ retry.status = "thrown" /\ retry.error = ErrRateStatus

-----------------------------------------------------------------------------
(* Claims about the error responses of the endpoints, checked under SpecServer *)

Failed500 == {i \in 1..Len(server.requests) :
                 server.requests[i].status = "sent" /\ server.requests[i].code = 500}

\* C22: two requests whose turns failed with the same error carry the same
\* message text in the error body of their 500 responses, whichever of the two
\* endpoints served them.
C22_SameErrorText ==
    \A i \in Failed500, j \in Failed500 :
        server.requests[i].error = server.requests[j].error
           => server.requests[i].body.error = server.requests[j].body.error

====
